---- MODULE Spec2Model ----
(***************************************************************************)
(* Model of dataatlas_backend (src/main.py): the two catalog-to-graph      *)
(* builders fetch_metadata and fetch_columns, and the request handlers     *)
(* db_connect and get_columns around the process-wide connection pool.     *)
(*                                                                         *)
(* Spec      applies the builders to catalog rows drawn from bounded sets. *)
(* SpecPool  interleaves requests at their await points.                   *)
(***************************************************************************)
EXTENDS Integers, Sequences, FiniteSets, TLC

VARIABLES
    tables,          \* rows of tables_query (main.py:60), a sequence of table names
    relationships,   \* rows of relationships_query (main.py:61)
    table,           \* TableRequest.table of the /api/columns request
    columns,         \* rows of columns_query (main.py:91), a sequence of column names
    metadata,        \* response of the latest fetch_metadata call
    firstMetadata,   \* response of the first fetch_metadata call
    colGraph,        \* response of the latest fetch_columns call
    firstColGraph,   \* response of the first fetch_columns call
    mcalls,          \* number of fetch_metadata calls made
    ccalls,          \* number of fetch_columns calls made
    pool,            \* the global `pool` (main.py:32): 0 is None, else an index of pools
    pools,           \* every pool asyncpg.create_pool has returned, in creation order
    reqs             \* the HTTP requests: position, parameters, outcome

vars == <<tables, relationships, table, columns, metadata, firstMetadata,
          colGraph, firstColGraph, mcalls, ccalls, pool, pools, reqs>>

buildVars == <<tables, relationships, table, columns, metadata, firstMetadata,
               colGraph, firstColGraph, mcalls, ccalls>>

poolVars == <<pool, pools, reqs>>

-----------------------------------------------------------------------------
(* Bounds *)

MaxTables == 2
MaxFks == 2
MaxCols == 2
MaxCalls == 2
MaxReqs == 3

TableNames == {"users", "orders"}
ColumnNames == {"id", "email"}

SeqUpTo(S, n) == UNION {[1..k -> S] : k \in 0..n}

Range(s) == {s[i] : i \in DOMAIN s}

RelRows == [table_name : TableNames, foreign_table_name : TableNames]

-----------------------------------------------------------------------------
(* Responses *)

None == [status |-> "none"]

Ok(elements) == [status |-> "ok", elements |-> elements]

\* the handlers turn any exception into HTTPException(500, str(e))
Raised(detail) == [status |-> "error", detail |-> detail]

-----------------------------------------------------------------------------
(* fetch_metadata, main.py:63-80 *)

\* elements = []
NewElementsStale == IF metadata.status = "ok" THEN metadata.elements ELSE <<>>

NewElements == <<>>

\* f"table_{table['table_name']}"
TableNodeIdBare(name) == name

TableNodeId(name) == "table_" \o name

\* table_nodes = {table['table_name']: f"table_{...}" for table in tables}
table_nodes(tbls) == [n \in Range(tbls) |-> TableNodeId(n)]

\* for table in tables: elements.append({"data": {...,"type": "table"}})
TableElements(tbls) ==
    [i \in 1..Len(tbls) |->
        [id |-> table_nodes(tbls)[tbls[i]], label |-> tbls[i], type |-> "table"]]

\* table_nodes.get(rel['foreign_table_name'], rel['foreign_table_name'])
TargetIdRaw(tn, foreign) == foreign

TargetIdPrefixed(tn, foreign) == "table_" \o foreign

TargetId(tn, foreign) == IF foreign \in DOMAIN tn THEN tn[foreign] ELSE foreign

\* {"data": {"id": f"edge_{source_id}_to_{target_id}", ... "type": "relationship"}}
RelationshipEdge(source_id, target_id) ==
    [id |-> "edge_" \o source_id \o "_to_" \o target_id,
     source |-> source_id, target |-> target_id, type |-> "relationship"]

\* for rel in relationships: ...; table_nodes[rel['table_name']] raises KeyError
RECURSIVE AppendRelationships(_, _, _)
AppendRelationships(elements, tn, rels) ==
    IF rels = <<>> THEN Ok(elements)
    ELSE LET rel == Head(rels) IN
         IF rel.table_name \notin DOMAIN tn THEN Raised("KeyError")
         ELSE LET source_id == tn[rel.table_name]
                  target_id == TargetId(tn, rel.foreign_table_name)
              IN AppendRelationships(
                     Append(elements, RelationshipEdge(source_id, target_id)),
                     tn, Tail(rels))

fetch_metadata(tbls, rels) ==
    AppendRelationships(NewElements \o TableElements(tbls), table_nodes(tbls), rels)

-----------------------------------------------------------------------------
(* fetch_columns, main.py:92-108 *)

\* column_id = f"{table}_{column['column_name']}"
ColumnId(t, c) == t \o "_" \o c

ColumnNode(t, c) == [id |-> ColumnId(t, c), label |-> c, type |-> "column"]

\* "id": f"edge_{table}_to_{column_id}", "source": table_id, "target": column_id
ColumnEdge(t, c) ==
    [id |-> "edge_" \o t \o "_to_" \o ColumnId(t, c),
     source |-> "table_" \o t, target |-> ColumnId(t, c),
     type |-> "column-relationship"]

\* table_node is built (main.py:96) and never appended
table_node(t) == [id |-> "table_" \o t, label |-> t, type |-> "table"]

column_elements(t, cols) == [i \in 1..Len(cols) |-> ColumnNode(t, cols[i])]

edge_elements(t, cols) == [i \in 1..Len(cols) |-> ColumnEdge(t, cols[i])]

fetch_columnsWithTable(t, cols) ==
    Ok(<<table_node(t)>> \o column_elements(t, cols) \o edge_elements(t, cols))

\* return {"elements": column_elements + edge_elements}
fetch_columns(t, cols) == Ok(column_elements(t, cols) \o edge_elements(t, cols))

-----------------------------------------------------------------------------
(* Spec: the builders applied to catalog rows *)

Init ==
    /\ tables \in SeqUpTo(TableNames, MaxTables)
    /\ relationships \in SeqUpTo(RelRows, MaxFks)
    /\ table \in TableNames
    /\ columns \in SeqUpTo(ColumnNames, MaxCols)
    /\ metadata = None
    /\ firstMetadata = None
    /\ colGraph = None
    /\ firstColGraph = None
    /\ mcalls = 0
    /\ ccalls = 0
    /\ pool = 0
    /\ pools = <<>>
    /\ reqs = <<>>

FetchMetadata ==
    /\ mcalls < MaxCalls
    /\ metadata' = fetch_metadata(tables, relationships)
    /\ firstMetadata' = IF mcalls = 0 THEN metadata' ELSE firstMetadata
    /\ mcalls' = mcalls + 1
    /\ UNCHANGED <<tables, relationships, table, columns, colGraph, firstColGraph,
                   ccalls, pool, pools, reqs>>

FetchColumns ==
    /\ ccalls < MaxCalls
    /\ colGraph' = fetch_columns(table, columns)
    /\ firstColGraph' = IF ccalls = 0 THEN colGraph' ELSE firstColGraph
    /\ ccalls' = ccalls + 1
    /\ UNCHANGED <<tables, relationships, table, columns, metadata, firstMetadata,
                   mcalls, pool, pools, reqs>>

Next == FetchMetadata \/ FetchColumns

Spec == Init /\ [][Next]_vars

-----------------------------------------------------------------------------
(* SpecPool: db_connect and get_columns interleaved at their await points *)

Reqs == 1..MaxReqs

Catalogs == {"A", "B"}

\* what conn.fetch(tables_query) returns on a connection to catalog c
CatalogTables(c) == IF c = "A" THEN <<"users", "orders">> ELSE <<"orders">>

\* what conn.fetch(relationships_query) returns on a connection to catalog c
CatalogRelationships(c) ==
    IF c = "A" THEN <<[table_name |-> "orders", foreign_table_name |-> "users"]>>
    ELSE <<>>

\* what conn.fetch(columns_query) returns for table t on a connection to catalog c
CatalogColumns(c, t) ==
    IF c = "A" THEN (IF t = "users" THEN <<"id", "email">> ELSE <<"id">>)
    ELSE (IF t = "orders" THEN <<"id", "email">> ELSE <<>>)

NoRequest ==
    [kind |-> "none", pc |-> "idle", catalog |-> "A", good |-> TRUE,
     table |-> "users", closing |-> 0, conn |-> 0, outcome |-> None]

InitPool ==
    /\ tables = <<>>
    /\ relationships = <<>>
    /\ table = "users"
    /\ columns = <<>>
    /\ metadata = None
    /\ firstMetadata = None
    /\ colGraph = None
    /\ firstColGraph = None
    /\ mcalls = 0
    /\ ccalls = 0
    /\ pool = 0
    /\ pools = <<>>
    /\ reqs = [r \in Reqs |-> NoRequest]

\* POST /api/db-connect for catalog c arrives (good: create_pool will succeed);
\* the handler runs to its first await: `if pool: await pool.close()`.
\* close() of a closed pool returns at once; otherwise the pool stops handing
\* out connections and close() waits until every connection is released.
DbConnectBegin(r, c, good) ==
    /\ reqs[r].kind = "none"
    /\ LET waits == pool # 0 /\ pools[pool].state # "closed" IN
       /\ reqs' = [reqs EXCEPT ![r] =
              [NoRequest EXCEPT !.kind = "connect", !.catalog = c, !.good = good,
                                !.pc = IF waits THEN "closing" ELSE "create",
                                !.closing = IF waits THEN pool ELSE 0]]
       /\ pools' = IF waits THEN [pools EXCEPT ![pool].state = "closing"] ELSE pools
    /\ UNCHANGED <<pool, buildVars>>

\* `await pool.close()` returns: every connection of that pool was released
DbConnectClosed(r) ==
    /\ reqs[r].pc = "closing"
    /\ pools[reqs[r].closing].inUse = 0
    /\ pools' = [pools EXCEPT ![reqs[r].closing].state = "closed"]
    /\ reqs' = [reqs EXCEPT ![r].pc = "create"]
    /\ UNCHANGED <<pool, buildVars>>

\* `pool = await asyncpg.create_pool(...)` returns a pool, the global is
\* assigned and `pool.acquire()` is entered on it with no await in between
DbConnectCreated(r) ==
    /\ reqs[r].pc = "create"
    /\ reqs[r].good
    /\ pools' = Append(pools, [catalog |-> reqs[r].catalog, state |-> "open", inUse |-> 1])
    /\ pool' = Len(pools) + 1
    /\ reqs' = [reqs EXCEPT ![r].pc = "fetch", ![r].conn = Len(pools) + 1]
    /\ UNCHANGED buildVars

\* create_pool raises; `except Exception` answers 500, the global is left as it was
DbConnectFailed(r) ==
    /\ reqs[r].pc = "create"
    /\ ~reqs[r].good
    /\ reqs' = [reqs EXCEPT ![r].pc = "done", ![r].outcome = Raised("create_pool")]
    /\ UNCHANGED <<pool, pools, buildVars>>

\* fetch_metadata(conn) returns, the connection is released, the graph is returned
DbConnectDone(r) ==
    /\ reqs[r].kind = "connect"
    /\ reqs[r].pc = "fetch"
    /\ LET c == pools[reqs[r].conn].catalog IN
       reqs' = [reqs EXCEPT ![r].pc = "done",
                            ![r].outcome =
                                fetch_metadata(CatalogTables(c), CatalogRelationships(c))]
    /\ pools' = [pools EXCEPT ![reqs[r].conn].inUse = @ - 1]
    /\ UNCHANGED <<pool, buildVars>>

\* POST /api/columns for table t arrives while a pool is open; `catalog` records
\* the catalog serving at that moment, the one the request is meant for
GetColumnsArrive(r, t) ==
    /\ reqs[r].kind = "none"
    /\ pool # 0
    /\ pools[pool].state = "open"
    /\ reqs' = [reqs EXCEPT ![r] =
           [NoRequest EXCEPT !.kind = "columns", !.table = t, !.pc = "get_conn",
                             !.catalog = pools[pool].catalog]]
    /\ UNCHANGED <<pool, pools, buildVars>>

\* the dependency get_conn reads the global and enters pool.acquire(); a pool
\* that is closing or closed raises InterfaceError
get_conn(r) ==
    /\ reqs[r].pc = "get_conn"
    /\ IF pool # 0 /\ pools[pool].state = "open"
       THEN /\ pools' = [pools EXCEPT ![pool].inUse = @ + 1]
            /\ reqs' = [reqs EXCEPT ![r].pc = "fetch", ![r].conn = pool]
       ELSE /\ pools' = pools
            /\ reqs' = [reqs EXCEPT ![r].pc = "done",
                                    ![r].outcome = Raised("InterfaceError")]
    /\ UNCHANGED <<pool, buildVars>>

\* fetch_columns(request.table, conn) returns, the connection is released
GetColumnsDone(r) ==
    /\ reqs[r].kind = "columns"
    /\ reqs[r].pc = "fetch"
    /\ reqs' = [reqs EXCEPT ![r].pc = "done",
                            ![r].outcome =
                                fetch_columns(reqs[r].table,
                                    CatalogColumns(pools[reqs[r].conn].catalog,
                                                   reqs[r].table))]
    /\ pools' = [pools EXCEPT ![reqs[r].conn].inUse = @ - 1]
    /\ UNCHANGED <<pool, buildVars>>

NextPool ==
    \E r \in Reqs :
        \/ \E c \in Catalogs, good \in BOOLEAN : DbConnectBegin(r, c, good)
        \/ DbConnectClosed(r)
        \/ DbConnectCreated(r)
        \/ DbConnectFailed(r)
        \/ DbConnectDone(r)
        \/ \E t \in TableNames : GetColumnsArrive(r, t)
        \/ get_conn(r)
        \/ GetColumnsDone(r)

SpecPool == InitPool /\ [][NextPool]_vars

-----------------------------------------------------------------------------
(* Properties of the builders, checked under Spec *)

DistinctNames(tbls) == \A i, j \in DOMAIN tbls : i # j => tbls[i] # tbls[j]

IsEdge(e) == e.type \in {"relationship", "column-relationship"}

OwnersPresent == \A k \in DOMAIN relationships : relationships[k].table_name \in Range(tables)

ReferencedPresent ==
    \A k \in DOMAIN relationships : relationships[k].foreign_table_name \in Range(tables)

\* C1: the schema graph holds exactly one node per input table, in input order,
\* with id "table_" + name, label name and kind table; without foreign keys it
\* holds nothing else (an empty table list gives an empty sequence, no error);
\* distinct table names give pairwise distinct node ids.
C1_SchemaNodes ==
    /\ (mcalls > 0 /\ relationships = <<>>) =>
           (metadata.status = "ok" /\ Len(metadata.elements) = Len(tables))
    /\ metadata.status = "ok" =>
           LET els == metadata.elements
               n == Len(tables)
           IN /\ Len(els) >= n
              /\ \A i \in 1..n :
                     els[i] = [id |-> "table_" \o tables[i], label |-> tables[i],
                               type |-> "table"]
              /\ \A i \in (n + 1)..Len(els) : els[i].type # "table"
              /\ DistinctNames(tables) =>
                     \A i, j \in 1..n : i # j => els[i].id # els[j].id

C1_Witness ==
    /\ metadata.status = "ok"
    /\ relationships = <<>>
    /\ Len(tables) = 2
    /\ DistinctNames(tables)
    /\ Len(metadata.elements) = 2

\* C2: when every owning and every referenced table is in the table list, the
\* schema graph holds exactly one relationship edge per foreign key, in input
\* order and without deduplication, and each edge's source and target is the id
\* of a node of the same graph.
C2_SchemaEdges ==
    (mcalls > 0 /\ OwnersPresent /\ ReferencedPresent) =>
        /\ metadata.status = "ok"
        /\ LET els == metadata.elements
               n == Len(tables)
               nodeIds == {els[i].id : i \in 1..n}
           IN /\ Len(els) = n + Len(relationships)
              /\ \A k \in DOMAIN relationships :
                     /\ els[n + k].type = "relationship"
                     /\ els[n + k].source = "table_" \o relationships[k].table_name
                     /\ els[n + k].target =
                            "table_" \o relationships[k].foreign_table_name
                     /\ els[n + k].source \in nodeIds
                     /\ els[n + k].target \in nodeIds

C2_Witness ==
    /\ metadata.status = "ok"
    /\ OwnersPresent /\ ReferencedPresent
    /\ Len(relationships) = 2
    /\ relationships[1] = relationships[2]
    /\ Len(metadata.elements) = Len(tables) + 2

\* C3: a foreign key whose owning table is listed but whose referenced table is
\* not still yields one edge, from "table_" + tableName to the raw
\* foreignTableName, and a graph is returned; a listed referenced table gives
\* the target "table_" + foreignTableName.
C3_DanglingTarget ==
    (mcalls > 0 /\ OwnersPresent) =>
        /\ metadata.status = "ok"
        /\ LET els == metadata.elements
               n == Len(tables)
           IN /\ Len(els) = n + Len(relationships)
              /\ \A k \in DOMAIN relationships :
                     LET rel == relationships[k] IN
                     /\ els[n + k].source = "table_" \o rel.table_name
                     /\ els[n + k].target =
                            IF rel.foreign_table_name \in Range(tables)
                            THEN "table_" \o rel.foreign_table_name
                            ELSE rel.foreign_table_name

C3_Witness ==
    /\ metadata.status = "ok"
    /\ Len(relationships) > 0
    /\ \E k \in DOMAIN relationships :
           /\ relationships[k].foreign_table_name \notin Range(tables)
           /\ metadata.elements[Len(tables) + k].target =
                  relationships[k].foreign_table_name

\* C4: the column graph of table t holds one column node per column (id
\* t + "_" + column, label column) followed by one column-relationship edge per
\* column, from the fixed id "table_" + t to that column's node; the table's own
\* node is not emitted; no columns give an empty sequence.
C4_ColumnGraph ==
    ccalls > 0 =>
        /\ colGraph.status = "ok"
        /\ LET els == colGraph.elements
               n == Len(columns)
           IN /\ Len(els) = 2 * n
              /\ \A i \in 1..n :
                     /\ els[i] = [id |-> table \o "_" \o columns[i],
                                  label |-> columns[i], type |-> "column"]
                     /\ els[n + i].type = "column-relationship"
                     /\ els[n + i].target = els[i].id
                     /\ els[n + i].source = "table_" \o table
              /\ \A i \in DOMAIN els : els[i].type # "table"

C4_Witness ==
    /\ colGraph.status = "ok"
    /\ Len(columns) = 2
    /\ Len(colGraph.elements) = 4

EdgeIdFromEnds(e) == e.id = "edge_" \o e.source \o "_to_" \o e.target

\* C5: in every graph of either builder each edge's id is
\* "edge_" + its own source + "_to_" + its own target.
C5_EdgeIds ==
    /\ metadata.status = "ok" =>
           \A i \in DOMAIN metadata.elements :
               IsEdge(metadata.elements[i]) => EdgeIdFromEnds(metadata.elements[i])
    /\ colGraph.status = "ok" =>
           \A i \in DOMAIN colGraph.elements :
               IsEdge(colGraph.elements[i]) => EdgeIdFromEnds(colGraph.elements[i])

\* C6: with distinct table names, all element ids of one schema graph are
\* pairwise distinct, whatever the foreign-key list.
C6_UniqueIds ==
    (metadata.status = "ok" /\ DistinctNames(tables)) =>
        \A i, j \in DOMAIN metadata.elements :
            i # j => metadata.elements[i].id # metadata.elements[j].id

\* C7: the schema builder returns a graph for every table list and foreign-key
\* list, and each foreign key's edge starts at "table_" + tableName.
C7_Total ==
    mcalls > 0 =>
        /\ metadata.status = "ok"
        /\ Len(metadata.elements) = Len(tables) + Len(relationships)
        /\ \A k \in DOMAIN relationships :
               metadata.elements[Len(tables) + k].source =
                   "table_" \o relationships[k].table_name

-----------------------------------------------------------------------------
(* Properties of the request handlers, checked under SpecPool *)

\* the outcome of request r run with no other request, against its own catalog
AloneOutcome(r) ==
    IF reqs[r].kind = "connect"
    THEN IF reqs[r].good
         THEN fetch_metadata(CatalogTables(reqs[r].catalog),
                             CatalogRelationships(reqs[r].catalog))
         ELSE Raised("create_pool")
    ELSE fetch_columns(reqs[r].table, CatalogColumns(reqs[r].catalog, reqs[r].table))

\* C8: every completed request has the outcome it would have had running alone
\* against its own catalog, whatever other requests ran meanwhile.
C8_NoInterference ==
    \A r \in DOMAIN reqs : reqs[r].pc = "done" => reqs[r].outcome = AloneOutcome(r)

Quiescent == \A r \in DOMAIN reqs : reqs[r].pc \in {"idle", "done"}

OpenPools == {p \in DOMAIN pools : pools[p].state # "closed"}

\* C10: once no request is in flight at most one pool is open, and an open pool
\* is the one the global refers to.
C10_NoLeakedPool ==
    Quiescent => (Cardinality(OpenPools) <= 1 /\ \A p \in OpenPools : p = pool)

====
